---- MODULE Spec2Model ----
(***************************************************************************)
(* Model of app/components/cart/CartLineItem.tsx: the quantity and removal *)
(* controls of one cart line (CartLineQuantity and its buttons) and the    *)
(* product page loader (loader, loadCriticalData, loadDeferredData).       *)
(***************************************************************************)
EXTENDS Integers, Sequences, FiniteSets, TLC

\* ---------------------------------------------------------------- bounds
MaxQuantity == 4
MaxAvailable == 5

\* ------------------------------------------------------- JavaScript values
Undefined == [t |-> "undefined"]
Null == [t |-> "null"]
Num(n) == [t |-> "number", v |-> n]
Bool(b) == [t |-> "boolean", v |-> b]

\* JavaScript truthiness, as used by `!!isOptimistic`, `!line` and the
\* condition of `quantityAvailable ? ... : ...`.
Truthy(x) ==
  CASE x.t = "undefined" -> FALSE
    [] x.t = "null" -> FALSE
    [] x.t = "number" -> x.v # 0
    [] x.t = "boolean" -> x.v
    [] x.t = "string" -> x.v # ""
    [] OTHER -> TRUE

DigitChar == <<"0", "1", "2", "3", "4", "5", "6", "7", "8", "9">>

RECURSIVE Digits(_)
Digits(n) ==
  IF n < 10 THEN <<DigitChar[n + 1]>>
  ELSE Digits(n \div 10) \o <<DigitChar[(n % 10) + 1]>>

\* Number.prototype.toFixed(0) of an integer: its decimal digits.
ToFixed0(n) == IF n < 0 THEN <<"-">> \o Digits(0 - n) ELSE Digits(n)

DigitValue(c) == CHOOSE d \in 0..9 : DigitChar[d + 1] = c

RECURSIVE ParseDigits(_)
ParseDigits(s) ==
  IF Len(s) = 0 THEN 0
  ELSE 10 * ParseDigits(SubSeq(s, 1, Len(s) - 1)) + DigitValue(s[Len(s)])

\* Number(string) of a decimal literal.
Number(s) ==
  IF Len(s) > 0 /\ s[1] = "-" THEN 0 - ParseDigits(Tail(s)) ELSE ParseDigits(s)

MathMax(a, b) == IF a >= b THEN a ELSE b

\* ------------------------------------------------------------------ state
VARIABLES
  line,               \* the OptimisticCartLine handed to the component, or Null
  quantityAvailable,  \* merchandise.quantityAvailable: Maybe<number>
  view,               \* what CartLineQuantity rendered
  server,             \* the cart line as the cart endpoint holds it
  pending,            \* the CartForm submissions still in flight
  clicked,            \* the control activated last
  pc,                 \* loader: position in the async function
  params,             \* loader: route params
  productQuery,       \* loader: storefront.query(PRODUCT_QUERY) promise
  recommendedQuery,   \* loader: storefront.query(RECOMMENDED_PRODUCTS_QUERY) promise
  recommendedProducts,\* loader: the promise .catch(...) returns
  criticalPromise,    \* loader: the promise loadCriticalData(args) returned
  logged,             \* loader: console.error calls
  response            \* loader: what the loader's promise settled to

cartVars == <<line, quantityAvailable, view, server, pending, clicked>>
loaderVars == <<pc, params, productQuery, criticalPromise, recommendedQuery,
                recommendedProducts, logged, response>>
vars == <<line, quantityAvailable, view, server, pending, clicked, pc, params,
          productQuery, criticalPromise, recommendedQuery, recommendedProducts,
          logged, response>>

LineIds == {"gid://CartLine/1", "gid://CartLine/2"}

\* ------------------------------------------------------- CartLineQuantity
\* Mutant: the decrement is forgotten.
prevQuantityNoDecrement(quantity) == Number(ToFixed0(MathMax(0, quantity)))

prevQuantity(quantity) == Number(ToFixed0(MathMax(0, quantity - 1)))

nextQuantity(quantity) == Number(ToFixed0(quantity + 1))

\* Mutant: the lower limit is off by one.
isDecreaseDisabledBelowOne(quantity, isOptimistic) ==
  quantity <= 0 \/ Truthy(isOptimistic)

isDecreaseDisabled(quantity, isOptimistic) ==
  quantity <= 1 \/ Truthy(isOptimistic)

\* Mutant: the optimistic flag is ignored when the stock is unknown.
isIncreaseDisabledIgnoresOptimistic(quantity, isOptimistic, available) ==
  IF Truthy(available)
    THEN nextQuantity(quantity) > available.v
    ELSE FALSE

\* Mutant: the current quantity, not the next one, is compared with the stock.
isIncreaseDisabledComparesCurrent(quantity, isOptimistic, available) ==
  IF Truthy(available)
    THEN quantity > available.v
    ELSE Truthy(isOptimistic)

isIncreaseDisabled(quantity, isOptimistic, available) ==
  IF Truthy(available)
    THEN nextQuantity(quantity) > available.v
    ELSE Truthy(isOptimistic)

\* Mutant: the removal control is never disabled.
isRemoveDisabledNever(isOptimistic) == FALSE

isRemoveDisabled(isOptimistic) == Truthy(isOptimistic)

CartLineUpdateButton(name, value, disabled, lines) ==
  [action |-> "LinesUpdate", name |-> name, value |-> value,
   disabled |-> disabled, inputs |-> [lines |-> lines]]

CartLineRemoveButton(lineIds, disabled) ==
  [action |-> "LinesRemove", disabled |-> disabled,
   inputs |-> [lineIds |-> lineIds]]

CartLineQuantity(l, available) ==
  IF ~Truthy(l) \/ l.quantity.t = "undefined" THEN [t |-> "null"]
  ELSE
    [t |-> "cluster",
     quantity |-> l.quantity.v,
     decrease |-> CartLineUpdateButton("decrease-quantity",
                    prevQuantity(l.quantity.v),
                    isDecreaseDisabled(l.quantity.v, l.isOptimistic),
                    <<[id |-> l.id, quantity |-> prevQuantity(l.quantity.v)]>>),
     increase |-> CartLineUpdateButton("increase-quantity",
                    nextQuantity(l.quantity.v),
                    isIncreaseDisabled(l.quantity.v, l.isOptimistic, available),
                    <<[id |-> l.id, quantity |-> nextQuantity(l.quantity.v)]>>),
     remove |-> CartLineRemoveButton(<<l.id>>, isRemoveDisabled(l.isOptimistic))]

CartLine(id, quantity, isOptimistic) ==
  [t |-> "object", id |-> id, quantity |-> quantity, isOptimistic |-> isOptimistic]

\* ------------------------------------------------- loader variables, idle
LoaderIdle ==
  /\ pc = "idle"
  /\ params = [handle |-> Undefined]
  /\ productQuery = [state |-> "unissued"]
  /\ criticalPromise = [state |-> "unissued"]
  /\ recommendedQuery = [state |-> "unissued"]
  /\ recommendedProducts = [state |-> "unissued"]
  /\ logged = 0
  /\ response = [state |-> "pending"]

\* ------------------------------------------ rendering one line (pure part)
InitRender ==
  /\ line \in {Null} \cup
       {CartLine(id, q, o) :
          id \in LineIds,
          q \in {Undefined} \cup {Num(n) : n \in 0..MaxQuantity},
          o \in {Undefined, Bool(TRUE), Bool(FALSE)}}
  /\ quantityAvailable \in
       {Undefined, Null} \cup {Num(a) : a \in (0 - 1)..MaxAvailable}
  /\ view = [t |-> "unrendered"]
  /\ server = Null
  /\ pending = <<>>
  /\ clicked = "none"
  /\ LoaderIdle

Render ==
  /\ view.t = "unrendered"
  /\ view' = CartLineQuantity(line, quantityAvailable)
  /\ UNCHANGED <<line, quantityAvailable, server, pending, clicked>>
  /\ UNCHANGED loaderVars

NextRender == Render

SpecRender == InitRender /\ [][NextRender]_vars

\* --------------------------------------------- the cart line under mutation
\* The cart-mutation collaborator (CartForm and the optimistic cart): the line
\* shown is the server's line with the in-flight submissions applied in order.
ApplyOptimistic(l, req) ==
  IF l = Null THEN Null
  ELSE IF req.action = "LinesRemove"
    THEN IF \E i \in 1..Len(req.inputs.lineIds) : req.inputs.lineIds[i] = l.id
           THEN Null ELSE l
  ELSE IF req.inputs.lines[1].id # l.id THEN l
  ELSE IF req.inputs.lines[1].quantity = 0 THEN Null
  ELSE CartLine(l.id, Num(req.inputs.lines[1].quantity), Bool(TRUE))

RECURSIVE ApplyAll(_, _)
ApplyAll(l, reqs) ==
  IF Len(reqs) = 0 THEN l ELSE ApplyAll(ApplyOptimistic(l, Head(reqs)), Tail(reqs))

OptimisticLine(s, reqs) ==
  IF s = Null THEN Null
  ELSE ApplyAll(CartLine(s.id, Num(s.quantity), Undefined), reqs)

\* The cart endpoint applying one confirmed mutation to its own line.
ServerApply(s, req) ==
  IF s = Null THEN Null
  ELSE IF req.action = "LinesRemove"
    THEN IF \E i \in 1..Len(req.inputs.lineIds) : req.inputs.lineIds[i] = s.id
           THEN Null ELSE s
  ELSE IF req.inputs.lines[1].id # s.id THEN s
  ELSE IF req.inputs.lines[1].quantity = 0 THEN Null
  ELSE [s EXCEPT !.quantity = req.inputs.lines[1].quantity]

RemoveAt(seq, i) == SubSeq(seq, 1, i - 1) \o SubSeq(seq, i + 1, Len(seq))

InitCart ==
  /\ server \in {[id |-> id, quantity |-> q] : id \in LineIds, q \in 1..MaxQuantity}
  /\ quantityAvailable \in
       {Undefined, Null} \cup {Num(a) : a \in (0 - 1)..MaxAvailable}
  /\ pending = <<>>
  /\ clicked = "none"
  /\ line = OptimisticLine(server, pending)
  /\ view = CartLineQuantity(line, quantityAvailable)
  /\ LoaderIdle

\* A submission: the form's inputs are posted, and the component is rendered
\* again with the optimistic line.
Submit(button, control) ==
  /\ pending' = Append(pending, [action |-> button.action, inputs |-> button.inputs])
  /\ clicked' = control
  /\ line' = OptimisticLine(server, pending')
  /\ view' = CartLineQuantity(line', quantityAvailable)
  /\ UNCHANGED <<server, quantityAvailable>>
  /\ UNCHANGED loaderVars

ActivateDecrease ==
  /\ view.t = "cluster"
  /\ ~view.decrease.disabled
  /\ Submit(view.decrease, "decrease")

ActivateIncrease ==
  /\ view.t = "cluster"
  /\ ~view.increase.disabled
  /\ Submit(view.increase, "increase")

ActivateRemove ==
  /\ view.t = "cluster"
  /\ ~view.remove.disabled
  /\ Submit(view.remove, "remove")

Settle(i, s) ==
  /\ server' = s
  /\ pending' = RemoveAt(pending, i)
  /\ line' = OptimisticLine(server', pending')
  /\ view' = CartLineQuantity(line', quantityAvailable)
  /\ UNCHANGED <<quantityAvailable, clicked>>
  /\ UNCHANGED loaderVars

\* The cart endpoint is free to refuse a mutation; the one modelled here
\* confirms no update beyond the quantities the model covers, and refuses it.
ServerAccepts(req) ==
  IF req.action = "LinesRemove" THEN TRUE
  ELSE req.inputs.lines[1].quantity <= MathMax(MaxQuantity, MaxAvailable)

ServerConfirm ==
  \E i \in 1..Len(pending) :
    /\ ServerAccepts(pending[i])
    /\ Settle(i, ServerApply(server, pending[i]))

ServerReject == \E i \in 1..Len(pending) : Settle(i, server)

NextCart ==
  \/ ActivateDecrease
  \/ ActivateIncrease
  \/ ActivateRemove
  \/ ServerConfirm
  \/ ServerReject

SpecCart == InitCart /\ [][NextCart]_vars

\* ------------------------------------------------------ product page loader
Str(s) == [t |-> "string", v |-> s]

\* Route params: the products.$handle route yields a non-empty handle; the
\* type also admits undefined.
Handles == {Str("snowboard"), Str("ghost")}

ShopData == [primaryDomain |-> [url |-> "https://sanarte.example"]]

Product(id, handle) == [t |-> "object", id |-> id, handle |-> handle]

\* What PRODUCT_QUERY can resolve to for a handle: no product, or a product
\* (the schema types shop, primaryDomain and url as non-null).
QueryData(handle) ==
  {[product |-> p, shop |-> ShopData] :
     p \in {Null, Product(Str(""), handle), Product(Str("gid://Product/1"), handle)}}

StorefrontError == [name |-> "StorefrontApiError"]

RecommendedData == {[nodes |-> <<>>], [nodes |-> <<"gid://Product/2">>]}

InitLoader ==
  /\ pc = "loader"
  /\ params \in {[handle |-> h] : h \in {Undefined} \cup Handles}
  /\ productQuery = [state |-> "unissued"]
  /\ criticalPromise = [state |-> "unissued"]
  /\ recommendedQuery = [state |-> "unissued"]
  /\ recommendedProducts = [state |-> "unissued"]
  /\ logged = 0
  /\ response = [state |-> "pending"]
  /\ line = Null
  /\ quantityAvailable = Undefined
  /\ view = [t |-> "unrendered"]
  /\ server = Null
  /\ pending = <<>>
  /\ clicked = "none"

\* loadDeferredData: the query is issued and .catch() derives a new promise.
loadDeferredData ==
  /\ pc = "loader"
  /\ recommendedQuery' = [state |-> "pending"]
  /\ recommendedProducts' = [state |-> "pending"]
  /\ pc' = "critical"
  /\ UNCHANGED <<params, productQuery, criticalPromise, logged, response>>
  /\ UNCHANGED cartVars

\* loadCriticalData up to its await: the handle check, then the query. A
\* throw rejects the promise loadCriticalData returned; the loader is then
\* suspended at its own await either way.
loadCriticalData ==
  /\ pc = "critical"
  /\ IF ~Truthy(params.handle)
       THEN /\ criticalPromise' =
                 [state |-> "rejected",
                  error |-> [name |-> "Error",
                             message |-> "Expected product handle to be defined"]]
            /\ UNCHANGED productQuery
       ELSE /\ productQuery' = [state |-> "pending", handle |-> params.handle]
            /\ criticalPromise' = [state |-> "pending"]
  /\ pc' = "await"
  /\ UNCHANGED <<params, recommendedQuery, recommendedProducts, logged, response>>
  /\ UNCHANGED cartVars

\* The event loop runs network callbacks only while the loader is suspended.
Suspended == pc \in {"await", "done"}

ProductQueryResolve ==
  /\ Suspended
  /\ productQuery.state = "pending"
  /\ \E d \in QueryData(productQuery.handle) :
       productQuery' = [state |-> "resolved", value |-> d]
  /\ UNCHANGED <<pc, params, criticalPromise, recommendedQuery, recommendedProducts,
                 logged, response>>
  /\ UNCHANGED cartVars

ProductQueryReject ==
  /\ Suspended
  /\ productQuery.state = "pending"
  /\ productQuery' = [state |-> "rejected", error |-> StorefrontError]
  /\ UNCHANGED <<pc, params, criticalPromise, recommendedQuery, recommendedProducts,
                 logged, response>>
  /\ UNCHANGED cartVars

RecommendedQueryResolve ==
  /\ Suspended
  /\ recommendedQuery.state = "pending"
  /\ \E d \in RecommendedData :
       recommendedQuery' = [state |-> "resolved", value |-> d]
  /\ UNCHANGED <<pc, params, productQuery, criticalPromise, recommendedProducts,
                 logged, response>>
  /\ UNCHANGED cartVars

RecommendedQueryReject ==
  /\ Suspended
  /\ recommendedQuery.state = "pending"
  /\ recommendedQuery' = [state |-> "rejected", error |-> StorefrontError]
  /\ UNCHANGED <<pc, params, productQuery, criticalPromise, recommendedProducts,
                 logged, response>>
  /\ UNCHANGED cartVars

\* Mutant: the callback logs and throws the error again.
catchHandlerRethrows(error) ==
  [logs |-> 1, promise |-> [state |-> "rejected", error |-> error]]

\* The .catch callback: console.error(error); return null.
catchHandler(error) == [logs |-> 1, promise |-> [state |-> "resolved", value |-> Null]]

\* The promise .catch() returned settles: a fulfilment passes through, a
\* rejection runs the callback.
CatchSettle ==
  /\ Suspended
  /\ recommendedProducts.state = "pending"
  /\ recommendedQuery.state \in {"resolved", "rejected"}
  /\ IF recommendedQuery.state = "resolved"
       THEN /\ recommendedProducts' = [state |-> "resolved", value |-> recommendedQuery.value]
            /\ UNCHANGED logged
       ELSE /\ recommendedProducts' = catchHandler(recommendedQuery.error).promise
            /\ logged' = logged + catchHandler(recommendedQuery.error).logs
  /\ UNCHANGED <<pc, params, productQuery, criticalPromise, recommendedQuery, response>>
  /\ UNCHANGED cartVars

\* Mutant: the not-found check is missing.
criticalDataNoNotFound(query) ==
  IF query.state = "rejected" THEN [state |-> "rejected", error |-> query.error]
  ELSE [state |-> "resolved",
        value |-> [product |-> query.value.product,
                   storeDomain |-> query.value.shop.primaryDomain.url]]

\* loadCriticalData after its await, as the settlement of its promise.
criticalData(query) ==
  IF query.state = "rejected" THEN [state |-> "rejected", error |-> query.error]
  ELSE IF ~(Truthy(query.value.product) /\ Truthy(query.value.product.id))
    THEN [state |-> "rejected", error |-> [name |-> "Response", status |-> 404]]
  ELSE [state |-> "resolved",
        value |-> [product |-> query.value.product,
                   storeDomain |-> query.value.shop.primaryDomain.url]]

\* defer({...deferredData, ...criticalData})
defer(deferredData, critical) ==
  [state |-> "resolved", status |-> 200,
   data |-> [recommendedProducts |-> deferredData.recommendedProducts,
             product |-> critical.product,
             storeDomain |-> critical.storeDomain]]

\* loadCriticalData continues once its query has settled, and settles the
\* promise it returned.
loadCriticalDataResume ==
  /\ pc = "await"
  /\ criticalPromise.state = "pending"
  /\ productQuery.state \in {"resolved", "rejected"}
  /\ criticalPromise' = criticalData(productQuery)
  /\ UNCHANGED <<pc, params, productQuery, recommendedQuery, recommendedProducts,
                 logged, response>>
  /\ UNCHANGED cartVars

\* Mutant: the loader also awaits the deferred promise.
awaitReadyAlsoDeferred ==
  /\ criticalPromise.state \in {"resolved", "rejected"}
  /\ recommendedProducts.state = "resolved"

\* `await loadCriticalData(args)` can continue.
awaitReady == criticalPromise.state \in {"resolved", "rejected"}

\* The loader after its await: a rejection is thrown on, a value is merged
\* with the deferred data and returned.
loaderResume ==
  /\ pc = "await"
  /\ awaitReady
  /\ response' =
       IF criticalPromise.state = "rejected"
         THEN criticalPromise
         ELSE defer([recommendedProducts |-> [promise |-> "recommendedProducts"]],
                    criticalPromise.value)
  /\ pc' = "done"
  /\ UNCHANGED <<params, productQuery, criticalPromise, recommendedQuery,
                 recommendedProducts, logged>>
  /\ UNCHANGED cartVars

NextLoader ==
  \/ loadDeferredData
  \/ loadCriticalData
  \/ ProductQueryResolve
  \/ ProductQueryReject
  \/ RecommendedQueryResolve
  \/ RecommendedQueryReject
  \/ CatchSettle
  \/ loadCriticalDataResume
  \/ loaderResume

SpecLoader == InitLoader /\ [][NextLoader]_vars

\* ================================================================= claims
Last(seq) == seq[Len(seq)]

Optimistic == line # Null /\ line.isOptimistic = Bool(TRUE)

UpdateRequest(id, quantity) ==
  [action |-> "LinesUpdate", inputs |-> [lines |-> <<[id |-> id, quantity |-> quantity]>>]]

RemoveRequest(id) ==
  [action |-> "LinesRemove", inputs |-> [lineIds |-> <<id>>]]

Activated(control) == clicked' = control /\ Len(pending') = Len(pending) + 1

\* C1: while a line is optimistic its decrease, increase and removal controls
\* are all disabled, so at most one mutation of the line is in flight.
C1_AllDisabledWhileOptimistic ==
  /\ (view.t = "cluster" /\ Optimistic) =>
       (view.decrease.disabled /\ view.increase.disabled /\ view.remove.disabled)
  /\ Len(pending) <= 1

\* C2: from a quantity of at least 1, no sequence of activations and server
\* settlements brings the quantity below 1: decrease is disabled at quantity 1
\* whatever the optimistic flag, and no update request carries quantity 0.
C2_QuantityNeverBelowOne ==
  /\ server # Null => server.quantity >= 1
  /\ line # Null => line.quantity.v >= 1
  /\ \A i \in 1..Len(pending) :
       pending[i].action = "LinesUpdate" => pending[i].inputs.lines[1].quantity >= 1
  /\ (view.t = "cluster" /\ line.quantity.v = 1) => view.decrease.disabled

C2_Witness ==
  /\ clicked = "decrease"
  /\ Len(pending) = 1
  /\ pending[1] = UpdateRequest(server.id, 1)
  /\ line # Null /\ line.quantity.v = 1
  /\ view.decrease.disabled

\* C3: for every quantity q and every quantity-available a that is present
\* (a = 0 included), whatever the optimistic flag, the increase control is
\* disabled iff q + 1 > a.
C3_IncreaseDisabledIffExceeds ==
  (view.t = "cluster" /\ quantityAvailable.t = "number") =>
    (view.increase.disabled <=> line.quantity.v + 1 > quantityAvailable.v)

\* C7 as stated: for every quantity q >= 2 the decrease control has candidate
\* q - 1 and is enabled, and activating it submits an update of this line to q - 1.
C7_DecreaseEnabledFromTwo ==
  [][/\ (view.t = "cluster" /\ line.quantity.v >= 2) =>
          (view.decrease.value = line.quantity.v - 1 /\ ~view.decrease.disabled)
     /\ Activated("decrease") =>
          Last(pending') = UpdateRequest(line.id, line.quantity.v - 1)]_vars

DecreaseFromTwo ==
  (view.t = "cluster" /\ line.quantity.v >= 2) =>
    /\ view.decrease.value = line.quantity.v - 1
    /\ view.decrease.disabled <=> Optimistic

\* C7 amended: for every quantity q >= 2 the decrease control has candidate
\* q - 1 and is enabled exactly when the line is not optimistic, and
\* activating it submits an update of exactly this line to q - 1.
C7_DecreaseFromTwoUnlessOptimistic ==
  [][/\ DecreaseFromTwo
     /\ DecreaseFromTwo'
     /\ Activated("decrease") =>
          /\ line.quantity.v >= 2
          /\ Last(pending') = UpdateRequest(line.id, line.quantity.v - 1)]_vars

C7_Witness ==
  /\ clicked = "decrease"
  /\ Len(pending) = 1
  /\ server.quantity >= 3
  /\ pending[1] = UpdateRequest(server.id, server.quantity - 1)
  /\ view.t = "cluster" /\ view.decrease.disabled

RemoveControl ==
  view.t = "cluster" =>
    /\ view.remove.disabled <=> Optimistic
    /\ view.remove.inputs.lineIds = <<line.id>>

\* C8: the removal control is disabled iff the line is optimistic, whatever
\* the quantity and the quantity-available, and activating it submits a
\* remove request listing exactly this line's identifier.
C8_RemoveDisabledIffOptimistic ==
  [][/\ RemoveControl
     /\ RemoveControl'
     /\ Activated("remove") => Last(pending') = RemoveRequest(line.id)]_vars

C8_Witness ==
  /\ clicked = "remove"
  /\ Len(pending) = 1
  /\ pending[1] = RemoveRequest(server.id)
  /\ line = Null

\* C9: when quantity-available is absent, for every quantity the increase
\* control is disabled iff the line is optimistic.
C9_IncreaseUnknownStock ==
  (view.t = "cluster" /\ quantityAvailable.t \in {"undefined", "null"}) =>
    (view.increase.disabled <=> Optimistic)

C9_Witness ==
  /\ view.t = "cluster"
  /\ quantityAvailable = Null
  /\ line.isOptimistic = Bool(TRUE)
  /\ line.quantity.v = 2
  /\ view.increase.disabled

Within(a) ==
  /\ server # Null => server.quantity \in 1..a
  /\ line # Null => line.quantity.v \in 1..a
  /\ \A i \in 1..Len(pending) :
       pending[i].action = "LinesUpdate" => pending[i].inputs.lines[1].quantity \in 1..a

\* C10: with a known positive quantity-available a and quantities within
\* 1..a, every activation (also one made while an earlier mutation is still
\* optimistic) and every settlement leaves the line's quantity and every
\* submitted update quantity within 1..a.
C10_QuantityWithinAvailable ==
  [][(/\ quantityAvailable.t = "number"
      /\ quantityAvailable.v > 0
      /\ Within(quantityAvailable.v))
       => Within(quantityAvailable.v)']_vars

C10_Witness ==
  /\ quantityAvailable.t = "number"
  /\ quantityAvailable.v > 0
  /\ Within(quantityAvailable.v)
  /\ Len(pending) = 2
  /\ pending[2].action = "LinesUpdate"
  /\ pending[2].inputs.lines[1].quantity = quantityAvailable.v

ValidProduct ==
  /\ productQuery.state = "resolved"
  /\ productQuery.value.product # Null
  /\ productQuery.value.product.id.v # ""

HandlePresent == params.handle # Undefined

\* C4: the deferred fetch never fails the request: when the critical phase
\* succeeds the loader returns a payload whatever the state of the
\* recommended-products fetch; a rejection is logged exactly once and the
\* recommendedProducts promise fulfils with null, never rejects.
C4_DeferredNeverFails ==
  /\ recommendedProducts.state # "rejected"
  /\ logged <= 1
  /\ (logged = 1) <=>
       (recommendedQuery.state = "rejected" /\ recommendedProducts.state = "resolved")
  /\ (recommendedQuery.state = "rejected" /\ recommendedProducts.state = "resolved")
       => recommendedProducts.value = Null
  /\ (pc = "done" /\ HandlePresent /\ ValidProduct) =>
       (response.state = "resolved" /\ response.status = 200)

C4_Witness ==
  /\ response.state = "resolved"
  /\ recommendedQuery.state = "rejected"
  /\ recommendedProducts = [state |-> "resolved", value |-> Null]
  /\ logged = 1

\* C5: the loader returns a payload iff the handle is present and the product
\* query resolves to a product with an identifier; an absent handle fails
\* with a generic error, a product without identifier with a 404 response,
\* and a failure carries no product, storeDomain or recommendedProducts.
C5_PayloadIffProduct ==
  /\ response.state = "resolved" => (HandlePresent /\ ValidProduct)
  /\ (pc = "done" /\ HandlePresent /\ ValidProduct) =>
       /\ response.state = "resolved"
       /\ response.data.product = productQuery.value.product
       /\ response.data.storeDomain = productQuery.value.shop.primaryDomain.url
  /\ (pc = "done" /\ ~HandlePresent) =>
       (response.state = "rejected" /\ response.error.name = "Error")
  /\ (pc = "done" /\ productQuery.state = "resolved" /\ ~ValidProduct) =>
       (response.state = "rejected"
          /\ response.error = [name |-> "Response", status |-> 404])
  /\ response.state = "rejected" => DOMAIN response = {"state", "error"}

C5_Witness ==
  /\ pc = "done"
  /\ HandlePresent
  /\ productQuery.state = "resolved"
  /\ productQuery.value.product = Null
  /\ response = [state |-> "rejected", error |-> [name |-> "Response", status |-> 404]]

\* C6: the deferred fetch is issued before the loader starts waiting on the
\* critical fetch, the response is produced only after the critical fetch
\* has completed, and the response never waits for the deferred fetch.
C6_DeferredIssuedFirstNeverAwaited ==
  /\ (pc \in {"await", "done"} \/ productQuery.state # "unissued")
       => recommendedQuery.state # "unissued"
  /\ response.state # "pending" =>
       /\ criticalPromise.state \in {"resolved", "rejected"}
       /\ HandlePresent => productQuery.state \in {"resolved", "rejected"}
  /\ response.state = "resolved" =>
       (productQuery.state = "resolved" /\ criticalPromise.state = "resolved")
  /\ (pc = "await" /\ criticalPromise.state \in {"resolved", "rejected"})
       => ENABLED loaderResume

C6_Witness ==
  /\ response.state = "resolved"
  /\ recommendedQuery.state = "pending"
  /\ recommendedProducts.state = "pending"

====
